---- MODULE Spec2Model ----
(***************************************************************************)
(* A model of the admin console component (src/unnamed/part_000): the     *)
(* component's state variables, its event handlers and the asynchronous   *)
(* gateway calls they start.  Types are those of src/types.ts.            *)
(***************************************************************************)
EXTENDS Integers, Sequences, FiniteSets, Bags, TLC

\* ------------------------------------------------------------------ bounds

\* The episode list is not grown beyond this many entries.
MaxEpisodes == 3
\* Date.now() returns values in 1..MaxNow.
MaxNow == 2
\* At most this many gateway calls are in flight at once.
MaxInflight == 2

\* ------------------------------------------------------------------ values

NULL == "null"
Admin == "admin"

\* An optional value: absent (null / undefined) or present.
None == <<>>
Some(x) == <<x>>

\* Text the operator can type into each input (the empty text included).
Titles == {"", "Title"}
Thumbnails == {"", "thumb.jpg"}
Codes == {"", "CODE123"}
EpTitles == {"", "Pilot"}
EpCodes == {"", "ABC"}
EpDurations == {"", "24m"}
Categories == {"Exclusive", "Series"}
Years == {"2024", "1999"}
Qualities == {"4K HDR", "1080p"}
Descriptions == {"", "plot"}
\* Rating texts, as sequences of characters.
RatingTexts == {<<"9", ".", "0">>, <<"8", ".", "5">>, <<>>}
\* Season texts, as sequences of characters: positive, missing, zero,
\* negative and non-numeric input.  No text holds an "x", so parseInt never
\* meets a hexadecimal prefix.
SeasonTexts == {<<"1">>, <<"2">>, <<>>, <<"0">>, <<"-", "1">>, <<"a">>}

VARIABLES
    activeTab, user,
    email, password, error, loading,
    lastAlert,  \* the message of the last alert() shown ("" for none yet)
    botUsername, channelLink,
    isEditing, editId,
    title, category, thumbnail, telegramCode, year, rating, quality, description,
    episodes, newEpTitle, newEpSeason, newEpDuration, newEpCode,
    movieList,
    now,        \* the last value Date.now() returned
    inflight    \* the gateway calls awaiting their result, a bag: they settle in any order

formVars == <<title, category, thumbnail, telegramCode, year, rating, quality, description>>
editVars == <<isEditing, editId>>
newEpVars == <<newEpTitle, newEpSeason, newEpDuration, newEpCode>>
loginVars == <<email, password, error>>
settingsVars == <<botUsername, channelLink>>
draftVars == <<formVars, episodes, editVars>>
vars == <<activeTab, user, loginVars, loading, lastAlert, settingsVars, draftVars,
          newEpVars, movieList, now, inflight>>

\* ------------------------------------------------------------------ stored records

\* Records the remote store may hold (src/types.ts, Movie).  The store is not
\* written through this console only, so a stored episode list need not be
\* sorted or densely numbered.  A rating is a number with one decimal place,
\* held in tenths (85 is 8.5).
Ep(id, season, number) ==
    [id |-> id, number |-> number, season |-> season, title |-> "Old",
     duration |-> "N/A", telegramCode |-> "OLD"]

SeriesRecord ==
    [id |-> "m1", title |-> "Title", thumbnail |-> "thumb.jpg", category |-> "Series",
     telegramCode |-> "", rating |-> 85, year |-> "2020", quality |-> "1080p",
     description |-> "plot",
     episodes |-> Some(<<Ep("e1", 2, 1), Ep("e2", 1, 1)>>)]

FilmRecord ==
    [id |-> "m2", title |-> "Title", thumbnail |-> "thumb.jpg", category |-> "Exclusive",
     telegramCode |-> "CODE123", rating |-> 90, year |-> "", quality |-> "",
     description |-> "", episodes |-> None]

\* What a listRecords read can return.
Snapshots == {<<>>, <<SeriesRecord, FilmRecord>>}

\* ------------------------------------------------------------------ initial state

Init ==
    /\ activeTab = "upload"
    /\ user = NULL
    /\ email = "" /\ password = "" /\ error = "" /\ loading = FALSE
    /\ lastAlert = ""
    /\ botUsername = "" /\ channelLink = ""
    /\ isEditing = FALSE /\ editId = NULL
    /\ title = "" /\ category = "Exclusive" /\ thumbnail = "" /\ telegramCode = ""
    /\ year = "2024" /\ rating = <<"9", ".", "0">> /\ quality = "4K HDR" /\ description = ""
    /\ episodes = <<>>
    /\ newEpTitle = "" /\ newEpSeason = <<"1">> /\ newEpDuration = "" /\ newEpCode = ""
    /\ movieList = <<>>
    /\ now = 1
    /\ inflight = EmptyBag

\* The part of the console that is on screen: the login form while no user
\* is signed in, else the selected tab.
Rendered(tab) == user # NULL /\ activeTab = tab

\* ------------------------------------------------------------------ parseInt

DigitChars == <<"0", "1", "2", "3", "4", "5", "6", "7", "8", "9">>
IsDigit(c) == \E i \in 1..10 : DigitChars[i] = c
DigitVal(c) == (CHOOSE i \in 1..10 : DigitChars[i] = c) - 1

RECURSIVE TrimStart(_)
TrimStart(s) == IF s # <<>> /\ Head(s) = " " THEN TrimStart(Tail(s)) ELSE s

RECURSIVE DigitRun(_)
DigitRun(s) ==
    IF s # <<>> /\ IsDigit(Head(s)) THEN <<Head(s)>> \o DigitRun(Tail(s)) ELSE <<>>

RECURSIVE DecimalValue(_)
DecimalValue(ds) ==
    IF ds = <<>> THEN 0
    ELSE DecimalValue(SubSeq(ds, 1, Len(ds) - 1)) * 10 + DigitVal(ds[Len(ds)])

\* parseInt(text): leading blanks skipped, an optional sign, then the longest
\* run of decimal digits; NaN when there is no digit.
parseInt(s) ==
    LET t == TrimStart(s)
        signed == t # <<>> /\ Head(t) \in {"-", "+"}
        ds == DigitRun(IF signed THEN Tail(t) ELSE t)
    IN  IF ds = <<>> THEN [nan |-> TRUE, val |-> 0]
        ELSE [nan |-> FALSE,
              val |-> IF signed /\ Head(t) = "-" THEN 0 - DecimalValue(ds)
                      ELSE DecimalValue(ds)]

\* parseInt(newEpSeason) || 1 : NaN and 0 are falsy.
SeasonNum(s) ==
    LET n == parseInt(s) IN IF n.nan \/ n.val = 0 THEN 1 ELSE n.val

\* parseFloat(text) for texts of at most one decimal place, in tenths: blanks
\* skipped, an optional sign, digits, an optional point and digits; NaN when
\* neither side of the point has a digit.
parseFloat(s) ==
    LET t == TrimStart(s)
        signed == t # <<>> /\ Head(t) \in {"-", "+"}
        u == IF signed THEN Tail(t) ELSE t
        whole == DigitRun(u)
        rest == SubSeq(u, Len(whole) + 1, Len(u))
        frac == IF rest # <<>> /\ Head(rest) = "." THEN DigitRun(Tail(rest)) ELSE <<>>
        tenths == DecimalValue(whole) * 10 + (IF frac = <<>> THEN 0 ELSE DigitVal(frac[1]))
    IN  IF whole = <<>> /\ frac = <<>> THEN [nan |-> TRUE, val |-> 0]
        ELSE [nan |-> FALSE,
              val |-> IF signed /\ Head(t) = "-" THEN 0 - tenths ELSE tenths]

RECURSIVE DecimalDigits(_)
DecimalDigits(n) ==
    IF n < 10 THEN <<DigitChars[n + 1]>>
    ELSE DecimalDigits(n \div 10) \o <<DigitChars[(n % 10) + 1]>>

\* movie.rating.toString() for a rating of n tenths, n >= 0: no point and no
\* decimal when the number is whole (9.0 prints as "9").
NumberToString(n) ==
    IF n % 10 = 0 THEN DecimalDigits(n \div 10)
    ELSE DecimalDigits(n \div 10) \o <<".", DigitChars[(n % 10) + 1]>>

\* text || fallback
OrElse(text, fallback) == IF text = "" THEN fallback ELSE text

\* ------------------------------------------------------------------ sort

\* The comparator of handleAddEpisode: season first, then number.
Compare(a, b) ==
    IF a.season # b.season THEN a.season - b.season ELSE a.number - b.number

\* e placed into a sorted list, after every entry that does not compare
\* greater (Array.prototype.sort is stable).
RECURSIVE InsertSorted(_, _)
InsertSorted(list, e) ==
    IF list = <<>> THEN <<e>>
    ELSE IF Compare(Head(list), e) > 0 THEN <<e>> \o list
    ELSE <<Head(list)>> \o InsertSorted(Tail(list), e)

\* No sort at all: the list in the order given.
Unsorted(list) == list

RECURSIVE SortEpisodes(_)
SortEpisodes(list) ==
    IF list = <<>> THEN <<>>
    ELSE InsertSorted(SortEpisodes(SubSeq(list, 1, Len(list) - 1)), list[Len(list)])

\* ------------------------------------------------------------------ helpers

\* episodes.filter(e => e.season === seasonNum).length
SeasonCount(list, seasonNum) ==
    Cardinality({i \in 1..Len(list) : list[i].season = seasonNum})

\* Date.now().toString()
NewId(t) == ToString(t)

\* ------------------------------------------------------------------ episode list

\* A numbering by the length of the whole list, whatever the season.
EpisodeNumberByLength(list, seasonNum) == Len(list) + 1

\* number: episodes.filter(e => e.season === seasonNum).length + 1
EpisodeNumber(list, seasonNum) == SeasonCount(list, seasonNum) + 1

\* The entry handleAddEpisode builds from the new-episode inputs at time t.
NewEpisode(list, t, seasonText, epTitle, epDuration, epCode) ==
    [id |-> NewId(t),
     number |-> EpisodeNumber(list, SeasonNum(seasonText)),
     season |-> SeasonNum(seasonText),
     title |-> epTitle,
     duration |-> IF epDuration = "" THEN "N/A" ELSE epDuration,
     telegramCode |-> epCode]

\* [...episodes, newEp].sort(...)
AddEpisode(list, newEp) == SortEpisodes(Append(list, newEp))

\* A check of the title alone.
AddRejectedOnTitleOnly(epTitle, epCode) == epTitle = ""

\* if (!newEpTitle || !newEpCode) return;
AddRejected(epTitle, epCode) == epTitle = "" \/ epCode = ""

\* A removal that closes the gap it leaves, renumbering the later entries of
\* the removed entries' seasons.
RemoveByIdRenumbering(list, id) ==
    LET kept == SelectSeq(list, LAMBDA ep : ep.id # id)
    IN  [k \in 1..Len(kept) |->
            [kept[k] EXCEPT !.number =
                Cardinality({j \in 1..k : kept[j].season = kept[k].season})]]

\* episodes.filter(ep => ep.id !== id)
RemoveById(list, id) == SelectSeq(list, LAMBDA ep : ep.id # id)

\* The ids removeEpisode can be called with: those Date.now() can produce and
\* those of stored episodes, whether or not the list holds such an entry.
EpisodeIds == {NewId(t) : t \in 1..MaxNow} \cup {"e1", "e2"}

handleAddEpisode ==
    /\ Rendered("upload")
    /\ IF AddRejected(newEpTitle, newEpCode)
       THEN UNCHANGED vars
       ELSE /\ Len(episodes) < MaxEpisodes
            /\ \E t \in now..MaxNow :
                 /\ now' = t
                 /\ episodes' = AddEpisode(episodes,
                        NewEpisode(episodes, t, newEpSeason, newEpTitle,
                                   newEpDuration, newEpCode))
            /\ newEpTitle' = ""
            /\ newEpDuration' = ""
            /\ newEpCode' = ""
            /\ UNCHANGED <<activeTab, user, loginVars, loading, lastAlert, settingsVars, formVars,
                           editVars, newEpSeason, movieList, inflight>>

removeEpisode ==
    /\ Rendered("upload")
    /\ \E id \in EpisodeIds : episodes' = RemoveById(episodes, id)
    /\ UNCHANGED <<activeTab, user, loginVars, loading, lastAlert, settingsVars, formVars,
                   editVars, newEpVars, movieList, now, inflight>>

setNewEpTitle ==
    /\ Rendered("upload")
    /\ \E v \in EpTitles : newEpTitle' = v
    /\ UNCHANGED <<activeTab, user, loginVars, loading, lastAlert, settingsVars, draftVars,
                   newEpSeason, newEpDuration, newEpCode, movieList, now, inflight>>

setNewEpSeason ==
    /\ Rendered("upload")
    /\ \E v \in SeasonTexts : newEpSeason' = v
    /\ UNCHANGED <<activeTab, user, loginVars, loading, lastAlert, settingsVars, draftVars,
                   newEpTitle, newEpDuration, newEpCode, movieList, now, inflight>>

setNewEpDuration ==
    /\ Rendered("upload")
    /\ \E v \in EpDurations : newEpDuration' = v
    /\ UNCHANGED <<activeTab, user, loginVars, loading, lastAlert, settingsVars, draftVars,
                   newEpTitle, newEpSeason, newEpCode, movieList, now, inflight>>

setNewEpCode ==
    /\ Rendered("upload")
    /\ \E v \in EpCodes : newEpCode' = v
    /\ UNCHANGED <<activeTab, user, loginVars, loading, lastAlert, settingsVars, draftVars,
                   newEpTitle, newEpSeason, newEpDuration, movieList, now, inflight>>

\* ------------------------------------------------------------------ session

\* A gateway call in flight: the operation, the handler awaiting it, the
\* record id it addresses (NULL for none), the names of the fields it sends
\* and, of their values, the view counter when one is sent.  No handler reads
\* the values sent again, so the call does not keep the others.
Call(op, handler, id, data) ==
    [op |-> op, handler |-> handler, id |-> id, fields |-> DOMAIN data,
     views |-> IF "views" \in DOMAIN data THEN Some(data.views) ELSE None]

\* A call that sends no record.
NoData == [f \in {} |-> ""]

\* The effect on [user, activeTab]: with a user signed in, showing the content
\* tab starts fetchMovies and showing the settings tab starts fetchSettings.
EffectCalls(u, tab) ==
    IF u = NULL THEN EmptyBag
    ELSE IF tab = "content" THEN SetToBag({Call("listRecords", "fetchMovies", NULL, NoData)})
    ELSE IF tab = "settings" THEN SetToBag({Call("getSettings", "fetchSettings", NULL, NoData)})
    ELSE EmptyBag

\* The session observer's callback: the auth gateway reports the current
\* session, present or absent, whenever it changes.
onAuthStateChanged ==
    \E currentUser \in {NULL, Admin} :
        /\ currentUser # user
        /\ BagCardinality(inflight (+) EffectCalls(currentUser, activeTab)) <= MaxInflight
        /\ user' = currentUser
        /\ inflight' = inflight (+) EffectCalls(currentUser, activeTab)
        /\ UNCHANGED <<activeTab, loginVars, loading, lastAlert, settingsVars, draftVars,
                       newEpVars, movieList, now>>

\* ------------------------------------------------------------------ draft

\* resetForm(): the form fields to their defaults, the episode list emptied,
\* the season input to "1" and edit mode left.
resetForm ==
    /\ title' = "" /\ category' = "Exclusive" /\ thumbnail' = "" /\ telegramCode' = ""
    /\ year' = "2024" /\ rating' = <<"9", ".", "0">> /\ quality' = "4K HDR"
    /\ description' = ""
    /\ episodes' = <<>>
    /\ newEpSeason' = <<"1">>
    /\ isEditing' = FALSE
    /\ editId' = NULL

setTitle ==
    /\ Rendered("upload")
    /\ \E v \in Titles : title' = v
    /\ UNCHANGED <<activeTab, user, loginVars, loading, lastAlert, settingsVars,
                   category, thumbnail, telegramCode, year, rating, quality, description,
                   episodes, editVars, newEpVars, movieList, now, inflight>>

setCategory ==
    /\ Rendered("upload")
    /\ \E v \in Categories : category' = v
    /\ UNCHANGED <<activeTab, user, loginVars, loading, lastAlert, settingsVars,
                   title, thumbnail, telegramCode, year, rating, quality, description,
                   episodes, editVars, newEpVars, movieList, now, inflight>>

setThumbnail ==
    /\ Rendered("upload")
    /\ \E v \in Thumbnails : thumbnail' = v
    /\ UNCHANGED <<activeTab, user, loginVars, loading, lastAlert, settingsVars,
                   title, category, telegramCode, year, rating, quality, description,
                   episodes, editVars, newEpVars, movieList, now, inflight>>

setTelegramCode ==
    /\ Rendered("upload")
    /\ \E v \in Codes : telegramCode' = v
    /\ UNCHANGED <<activeTab, user, loginVars, loading, lastAlert, settingsVars,
                   title, category, thumbnail, year, rating, quality, description,
                   episodes, editVars, newEpVars, movieList, now, inflight>>

setYear ==
    /\ Rendered("upload")
    /\ \E v \in Years : year' = v
    /\ UNCHANGED <<activeTab, user, loginVars, loading, lastAlert, settingsVars,
                   title, category, thumbnail, telegramCode, rating, quality, description,
                   episodes, editVars, newEpVars, movieList, now, inflight>>

setRating ==
    /\ Rendered("upload")
    /\ \E v \in RatingTexts : rating' = v
    /\ UNCHANGED <<activeTab, user, loginVars, loading, lastAlert, settingsVars,
                   title, category, thumbnail, telegramCode, year, quality, description,
                   episodes, editVars, newEpVars, movieList, now, inflight>>

setQuality ==
    /\ Rendered("upload")
    /\ \E v \in Qualities : quality' = v
    /\ UNCHANGED <<activeTab, user, loginVars, loading, lastAlert, settingsVars,
                   title, category, thumbnail, telegramCode, year, rating, description,
                   episodes, editVars, newEpVars, movieList, now, inflight>>

setDescription ==
    /\ Rendered("upload")
    /\ \E v \in Descriptions : description' = v
    /\ UNCHANGED <<activeTab, user, loginVars, loading, lastAlert, settingsVars,
                   title, category, thumbnail, telegramCode, year, rating, quality,
                   episodes, editVars, newEpVars, movieList, now, inflight>>

\* The "Cancel Edit" button, shown in edit mode only.
cancelEdit ==
    /\ Rendered("upload")
    /\ isEditing
    /\ resetForm
    /\ UNCHANGED <<activeTab, user, loginVars, loading, lastAlert, settingsVars,
                   newEpTitle, newEpDuration, newEpCode, movieList, now, inflight>>

\* The sidebar's "Upload / Edit" button: setActiveTab('upload'); resetForm().
clickUploadTab ==
    /\ user # NULL
    /\ activeTab' = "upload"
    /\ resetForm
    /\ UNCHANGED <<user, loginVars, loading, lastAlert, settingsVars,
                   newEpTitle, newEpDuration, newEpCode, movieList, now, inflight>>

\* The sidebar's "Manage Content" button: setActiveTab('content'); the effect
\* runs when the tab changes.
clickContentTab ==
    /\ user # NULL
    /\ activeTab' = "content"
    /\ LET started == IF activeTab # "content" THEN EffectCalls(user, "content")
                      ELSE EmptyBag
       IN  /\ BagCardinality(inflight (+) started) <= MaxInflight
           /\ inflight' = inflight (+) started
    /\ UNCHANGED <<user, loginVars, loading, lastAlert, settingsVars, draftVars,
                   newEpVars, movieList, now>>

\* The calls in flight with one more, and with one of them settled.
Started(calls, c) == calls (+) SetToBag({c})
Settled(calls, c) == calls (-) SetToBag({c})

\* fetchMovies after its await: the list read replaces movieList; a failed
\* read is logged and changes nothing.
fetchMoviesReturns ==
    \E c \in BagToSet(inflight) :
        /\ c.handler = "fetchMovies"
        /\ inflight' = Settled(inflight, c)
        /\ \/ \E list \in Snapshots : movieList' = list
           \/ UNCHANGED movieList
        /\ UNCHANGED <<activeTab, user, loginVars, loading, lastAlert, settingsVars,
                       draftVars, newEpVars, now>>

\* movie.episodes || []
StoredEpisodes(movie) == IF movie.episodes = None THEN <<>> ELSE movie.episodes[1]

\* handleEdit(movie), for a record of the list on the content tab.
handleEdit ==
    /\ Rendered("content")
    /\ \E m \in 1..Len(movieList) :
         LET movie == movieList[m]
         IN  /\ title' = movie.title
             /\ category' = movie.category
             /\ thumbnail' = movie.thumbnail
             /\ telegramCode' = OrElse(movie.telegramCode, "")
             /\ year' = OrElse(movie.year, "2024")
             /\ rating' = NumberToString(movie.rating)
             /\ quality' = OrElse(movie.quality, "4K HDR")
             /\ description' = OrElse(movie.description, "")
             /\ episodes' = StoredEpisodes(movie)
             /\ isEditing' = TRUE
             /\ editId' = movie.id
    /\ activeTab' = "upload"
    /\ UNCHANGED <<user, loginVars, loading, lastAlert, settingsVars, newEpVars,
                   movieList, now, inflight>>

\* ------------------------------------------------------------------ publish

RequiredMsg == "Title, Thumbnail and at least one Link (Code or Episode) are required"
UpdatedMsg == "Content Updated Successfully!"
AddedMsg == "Content Added Successfully!"
SaveErrorMsg == "Error saving document"

\* A check that fails only when everything is missing.
ValidationFailsWhenAllMissing(t, thumb, code, eps) ==
    t = "" /\ thumb = "" /\ code = "" /\ Len(eps) = 0

\* !title || !thumbnail || (!telegramCode && episodes.length === 0)
ValidationFails(t, thumb, code, eps) ==
    t = "" \/ thumb = "" \/ (code = "" /\ Len(eps) = 0)

\* movieData, built from the draft.
MovieData ==
    [title |-> title,
     category |-> category,
     thumbnail |-> thumbnail,
     telegramCode |-> telegramCode,
     year |-> year,
     rating |-> parseFloat(rating),
     quality |-> quality,
     description |-> description,
     episodes |-> IF Len(episodes) > 0 THEN Some(episodes) ELSE None,
     updatedAt |-> "serverTimestamp"]

\* isEditing && editId
EditTarget == isEditing /\ editId # NULL /\ editId # ""

\* A publish whose update sends the view counter and the creation timestamp
\* as a create does.
PublishCallStampingUpdates ==
    IF EditTarget
    THEN Call("update", "handlePublish", editId,
              MovieData @@ [views |-> "0", createdAt |-> "serverTimestamp"])
    ELSE Call("create", "handlePublish", NULL,
              MovieData @@ [views |-> "0", createdAt |-> "serverTimestamp"])

\* The gateway call of a publish: updateDoc on the record being edited, else
\* addDoc with the view counter and the creation timestamp added.
PublishCall ==
    IF EditTarget
    THEN Call("update", "handlePublish", editId, MovieData)
    ELSE Call("create", "handlePublish", NULL,
              MovieData @@ [views |-> "0", createdAt |-> "serverTimestamp"])

\* A rejection that has raised the loading flag before it returns.
publishRejectedLoading ==
    /\ lastAlert' = RequiredMsg
    /\ loading' = TRUE
    /\ UNCHANGED <<activeTab, user, loginVars, settingsVars, draftVars,
                   newEpVars, movieList, now, inflight>>

\* The validation failure: alert(...); return.
publishRejected ==
    /\ lastAlert' = RequiredMsg
    /\ UNCHANGED <<activeTab, user, loginVars, loading, settingsVars, draftVars,
                   newEpVars, movieList, now, inflight>>

\* handlePublish up to its await; the button is disabled while loading.
handlePublish ==
    /\ Rendered("upload")
    /\ ~loading
    /\ IF ValidationFails(title, thumbnail, telegramCode, episodes)
       THEN publishRejected
       ELSE /\ BagCardinality(inflight) < MaxInflight
            /\ loading' = TRUE
            /\ inflight' = Started(inflight, PublishCall)
            /\ UNCHANGED <<activeTab, user, loginVars, lastAlert, settingsVars,
                           draftVars, newEpVars, movieList, now>>

\* handlePublish after its await resolved: the alert, resetForm(), then the
\* finally block.  The handler's activeTab is the one its button was rendered
\* with, 'upload', so it never starts fetchMovies.
publishSucceeded(c) ==
    /\ c.handler = "handlePublish"
    /\ lastAlert' = IF c.op = "update" THEN UpdatedMsg ELSE AddedMsg
    /\ resetForm
    /\ loading' = FALSE
    /\ inflight' = Settled(inflight, c)
    /\ UNCHANGED <<activeTab, user, loginVars, settingsVars,
                   newEpTitle, newEpDuration, newEpCode, movieList, now>>

\* A failure path that resets the draft as the success path does.
publishFailedResetting(c) ==
    /\ c.handler = "handlePublish"
    /\ lastAlert' = SaveErrorMsg
    /\ resetForm
    /\ loading' = FALSE
    /\ inflight' = Settled(inflight, c)
    /\ UNCHANGED <<activeTab, user, loginVars, settingsVars,
                   newEpTitle, newEpDuration, newEpCode, movieList, now>>

\* handlePublish after its await rejected: the catch block, then finally.
publishFailed(c) ==
    /\ c.handler = "handlePublish"
    /\ lastAlert' = SaveErrorMsg
    /\ loading' = FALSE
    /\ inflight' = Settled(inflight, c)
    /\ UNCHANGED <<activeTab, user, loginVars, settingsVars, draftVars,
                   newEpVars, movieList, now>>

publishReturns ==
    \E c \in BagToSet(inflight) : publishSucceeded(c) \/ publishFailed(c)

\* ------------------------------------------------------------------ login

Emails == {"", "admin@site"}
Passwords == {"", "secret"}

CredentialsMsg == "Invalid admin credentials"

\* The login form is what is rendered while no user is signed in.
setEmail ==
    /\ user = NULL
    /\ \E v \in Emails : email' = v
    /\ UNCHANGED <<activeTab, user, password, error, loading, lastAlert, settingsVars,
                   draftVars, newEpVars, movieList, now, inflight>>

setPassword ==
    /\ user = NULL
    /\ \E v \in Passwords : password' = v
    /\ UNCHANGED <<activeTab, user, email, error, loading, lastAlert, settingsVars,
                   draftVars, newEpVars, movieList, now, inflight>>

\* handleLogin up to its await; the submit button is disabled while loading.
handleLogin ==
    /\ user = NULL
    /\ ~loading
    /\ BagCardinality(inflight) < MaxInflight
    /\ loading' = TRUE
    /\ error' = ""
    /\ inflight' = Started(inflight, Call("signIn", "handleLogin", NULL, NoData))
    /\ UNCHANGED <<activeTab, user, email, password, lastAlert, settingsVars,
                   draftVars, newEpVars, movieList, now>>

\* handleLogin after its await resolved: the finally block only; the session
\* itself arrives through onAuthStateChanged.
loginSucceeded(c) ==
    /\ c.handler = "handleLogin"
    /\ loading' = FALSE
    /\ inflight' = Settled(inflight, c)
    /\ UNCHANGED <<activeTab, user, loginVars, lastAlert, settingsVars,
                   draftVars, newEpVars, movieList, now>>

\* handleLogin after its await rejected: the catch block, then finally.
loginFailed(c) ==
    /\ c.handler = "handleLogin"
    /\ error' = CredentialsMsg
    /\ loading' = FALSE
    /\ inflight' = Settled(inflight, c)
    /\ UNCHANGED <<activeTab, user, email, password, lastAlert, settingsVars,
                   draftVars, newEpVars, movieList, now>>

loginReturns ==
    \E c \in BagToSet(inflight) : loginSucceeded(c) \/ loginFailed(c)

\* handleLogout: await signOut(auth), from the header of every tab.  The
\* handler sets no state; the session ends through onAuthStateChanged.
handleLogout ==
    /\ user # NULL
    /\ BagCardinality(inflight) < MaxInflight
    /\ inflight' = Started(inflight, Call("signOut", "handleLogout", NULL, NoData))
    /\ UNCHANGED <<activeTab, user, loginVars, loading, lastAlert, settingsVars,
                   draftVars, newEpVars, movieList, now>>

logoutReturns ==
    \E c \in BagToSet(inflight) :
        /\ c.handler = "handleLogout"
        /\ inflight' = Settled(inflight, c)
        /\ UNCHANGED <<activeTab, user, loginVars, loading, lastAlert, settingsVars,
                       draftVars, newEpVars, movieList, now>>

\* ------------------------------------------------------------------ settings

\* The default bot name, imported from ../constants.
BOT_USERNAME == "BOT_USERNAME"

\* Bot names the operator can type, as sequences of characters, and channel
\* links.
BotNameTexts == {<<>>, <<"b", "o", "t">>, <<"@", "b", "o", "t">>}
ChannelLinks == {"", "t.me/c"}

\* What a getSettings read can find: no document, or a document whose
\* fields are empty, so that both defaults apply.
SettingsDocs ==
    {None,
     Some([botUsername |-> "", channelLink |-> ""])}

SettingsSavedMsg == "App Configuration Saved!"
SettingsErrorMsg == "Error saving settings"

\* text.replace('@', ''): the first "@" removed.
RECURSIVE ReplaceFirstAt(_)
ReplaceFirstAt(s) ==
    IF s = <<>> THEN <<>>
    ELSE IF Head(s) = "@" THEN Tail(s)
    ELSE <<Head(s)>> \o ReplaceFirstAt(Tail(s))

\* The characters of a text as one string.
RECURSIVE Text(_)
Text(s) == IF s = <<>> THEN "" ELSE Head(s) \o Text(Tail(s))

\* The sidebar's "Settings" button: setActiveTab('settings'); the effect runs
\* when the tab changes.
clickSettingsTab ==
    /\ user # NULL
    /\ activeTab' = "settings"
    /\ LET started == IF activeTab # "settings" THEN EffectCalls(user, "settings")
                      ELSE EmptyBag
       IN  /\ BagCardinality(inflight (+) started) <= MaxInflight
           /\ inflight' = inflight (+) started
    /\ UNCHANGED <<user, loginVars, loading, lastAlert, settingsVars, draftVars,
                   newEpVars, movieList, now>>

\* fetchSettings after its await: a document found fills both fields, with
\* the defaults for empty ones; none sets the default bot name; a failed read
\* is logged and changes nothing.
fetchSettingsReturns ==
    \E c \in BagToSet(inflight) :
        /\ c.handler = "fetchSettings"
        /\ inflight' = Settled(inflight, c)
        /\ \/ \E docSnap \in SettingsDocs :
                IF docSnap # None
                THEN /\ botUsername' = OrElse(docSnap[1].botUsername, BOT_USERNAME)
                     /\ channelLink' = OrElse(docSnap[1].channelLink, "")
                ELSE /\ botUsername' = BOT_USERNAME
                     /\ UNCHANGED channelLink
           \/ UNCHANGED settingsVars
        /\ UNCHANGED <<activeTab, user, loginVars, loading, lastAlert,
                       draftVars, newEpVars, movieList, now>>

setBotUsername ==
    /\ Rendered("settings")
    /\ \E v \in BotNameTexts : botUsername' = Text(ReplaceFirstAt(v))
    /\ UNCHANGED <<activeTab, user, loginVars, loading, lastAlert, channelLink,
                   draftVars, newEpVars, movieList, now, inflight>>

setChannelLink ==
    /\ Rendered("settings")
    /\ \E v \in ChannelLinks : channelLink' = v
    /\ UNCHANGED <<activeTab, user, loginVars, loading, lastAlert, botUsername,
                   draftVars, newEpVars, movieList, now, inflight>>

\* handleSaveSettings up to its await; the button is disabled while loading.
handleSaveSettings ==
    /\ Rendered("settings")
    /\ ~loading
    /\ BagCardinality(inflight) < MaxInflight
    /\ loading' = TRUE
    /\ inflight' = Started(inflight,
                           Call("putSettings", "handleSaveSettings", NULL,
                                [botUsername |-> botUsername, channelLink |-> channelLink]))
    /\ UNCHANGED <<activeTab, user, loginVars, lastAlert, settingsVars,
                   draftVars, newEpVars, movieList, now>>

saveSettingsSucceeded(c) ==
    /\ c.handler = "handleSaveSettings"
    /\ lastAlert' = SettingsSavedMsg
    /\ loading' = FALSE
    /\ inflight' = Settled(inflight, c)
    /\ UNCHANGED <<activeTab, user, loginVars, settingsVars, draftVars,
                   newEpVars, movieList, now>>

saveSettingsFailed(c) ==
    /\ c.handler = "handleSaveSettings"
    /\ lastAlert' = SettingsErrorMsg
    /\ loading' = FALSE
    /\ inflight' = Settled(inflight, c)
    /\ UNCHANGED <<activeTab, user, loginVars, settingsVars, draftVars,
                   newEpVars, movieList, now>>

saveSettingsReturns ==
    \E c \in BagToSet(inflight) : saveSettingsSucceeded(c) \/ saveSettingsFailed(c)

\* ------------------------------------------------------------------ delete and seed

DeleteErrorMsg == "Error deleting movie"
SeededMsg == "Demo data uploaded successfully!"
SeedErrorMsg == "Error uploading data"

\* handleDelete(movie.id) up to its await, the confirmation accepted.  The
\* button is not disabled by the loading flag and the handler never raises it.
handleDelete ==
    /\ Rendered("content")
    /\ BagCardinality(inflight) < MaxInflight
    /\ \E m \in 1..Len(movieList) :
         inflight' = Started(inflight, Call("delete", "handleDelete", movieList[m].id, NoData))
    /\ UNCHANGED <<activeTab, user, loginVars, loading, lastAlert, settingsVars,
                   draftVars, newEpVars, movieList, now>>

\* prev.filter(m => m.id !== id)
WithoutId(list, id) == SelectSeq(list, LAMBDA m : m.id # id)

\* A delete whose success path also resets the draft.
deleteSucceededResetting(c) ==
    /\ c.handler = "handleDelete"
    /\ movieList' = WithoutId(movieList, c.id)
    /\ resetForm
    /\ inflight' = Settled(inflight, c)
    /\ UNCHANGED <<activeTab, user, loginVars, loading, lastAlert, settingsVars,
                   newEpTitle, newEpDuration, newEpCode, now>>

deleteSucceeded(c) ==
    /\ c.handler = "handleDelete"
    /\ movieList' = WithoutId(movieList, c.id)
    /\ inflight' = Settled(inflight, c)
    /\ UNCHANGED <<activeTab, user, loginVars, loading, lastAlert, settingsVars,
                   draftVars, newEpVars, now>>

deleteFailed(c) ==
    /\ c.handler = "handleDelete"
    /\ lastAlert' = DeleteErrorMsg
    /\ inflight' = Settled(inflight, c)
    /\ UNCHANGED <<activeTab, user, loginVars, loading, settingsVars,
                   draftVars, newEpVars, movieList, now>>

deleteReturns ==
    \E c \in BagToSet(inflight) : deleteSucceeded(c) \/ deleteFailed(c)

\* What every demo record of the batch is written with besides its own
\* fields.
SeedData == [createdAt |-> "serverTimestamp"]

\* handleSeedData up to its await, the confirmation accepted.  The button is
\* not disabled by the loading flag.
handleSeedData ==
    /\ Rendered("content")
    /\ BagCardinality(inflight) < MaxInflight
    /\ loading' = TRUE
    /\ inflight' = Started(inflight, Call("batchCreate", "handleSeedData", NULL, SeedData))
    /\ UNCHANGED <<activeTab, user, loginVars, lastAlert, settingsVars,
                   draftVars, newEpVars, movieList, now>>

\* handleSeedData after its await resolved: the alert, fetchMovies() started,
\* then the finally block.
seedSucceeded(c) ==
    /\ c.handler = "handleSeedData"
    /\ lastAlert' = SeededMsg
    /\ loading' = FALSE
    /\ inflight' = Started(Settled(inflight, c),
                           Call("listRecords", "fetchMovies", NULL, NoData))
    /\ UNCHANGED <<activeTab, user, loginVars, settingsVars, draftVars,
                   newEpVars, movieList, now>>

seedFailed(c) ==
    /\ c.handler = "handleSeedData"
    /\ lastAlert' = SeedErrorMsg
    /\ loading' = FALSE
    /\ inflight' = Settled(inflight, c)
    /\ UNCHANGED <<activeTab, user, loginVars, settingsVars, draftVars,
                   newEpVars, movieList, now>>

seedReturns ==
    \E c \in BagToSet(inflight) : seedSucceeded(c) \/ seedFailed(c)

\* ------------------------------------------------------------------ specifications

\* The episode list over a session: records are read and loaded for
\* editing, and the list is changed by add and remove.
NextLoad ==
    \/ onAuthStateChanged
    \/ clickUploadTab
    \/ clickContentTab
    \/ fetchMoviesReturns
    \/ handleEdit
    \/ cancelEdit
    \/ setNewEpTitle
    \/ setNewEpSeason
    \/ setNewEpCode
    \/ handleAddEpisode
    \/ removeEpisode

SpecLoad == Init /\ [][NextLoad]_vars

\* The draft and its publication: the fields validation reads, an episode
\* list that is loaded, grown and reset, edit mode and the publish call with
\* both of its outcomes.
NextPublish ==
    \/ onAuthStateChanged
    \/ clickUploadTab
    \/ clickContentTab
    \/ fetchMoviesReturns
    \/ handleEdit
    \/ cancelEdit
    \/ setTitle
    \/ setThumbnail
    \/ setTelegramCode
    \/ setNewEpTitle
    \/ setNewEpCode
    \/ handleAddEpisode
    \/ handlePublish
    \/ publishReturns

SpecPublish == Init /\ [][NextPublish]_vars

\* The episode list manager on its own: the list is built from empty by
\* add and remove (every duration left at its default).
NextList ==
    \/ onAuthStateChanged
    \/ setNewEpTitle
    \/ setNewEpSeason
    \/ setNewEpCode
    \/ handleAddEpisode
    \/ removeEpisode

SpecList == Init /\ [][NextList]_vars

\* The list built by adds alone, from every new-episode input.
NextAdd ==
    \/ onAuthStateChanged
    \/ setNewEpTitle
    \/ setNewEpSeason
    \/ setNewEpDuration
    \/ setNewEpCode
    \/ handleAddEpisode

SpecAdd == Init /\ [][NextAdd]_vars

\* The console's gateway traffic: session, tabs, records read, loaded,
\* published, deleted and seeded, the settings read and saved.
NextConsole ==
    \/ onAuthStateChanged
    \/ handleLogin
    \/ loginReturns
    \/ handleLogout
    \/ logoutReturns
    \/ clickUploadTab
    \/ clickContentTab
    \/ clickSettingsTab
    \/ fetchMoviesReturns
    \/ fetchSettingsReturns
    \/ handleEdit
    \/ handlePublish
    \/ publishReturns
    \/ handleSaveSettings
    \/ saveSettingsReturns
    \/ handleDelete
    \/ deleteReturns
    \/ handleSeedData
    \/ seedReturns

SpecConsole == Init /\ [][NextConsole]_vars

\* The same console where every gateway call that a handler awaits
\* eventually returns, with success or with failure.
SpecConsoleReturning ==
    /\ SpecConsole
    /\ WF_vars(loginReturns)
    /\ WF_vars(logoutReturns)
    /\ WF_vars(fetchMoviesReturns)
    /\ WF_vars(fetchSettingsReturns)
    /\ WF_vars(publishReturns)
    /\ WF_vars(saveSettingsReturns)
    /\ WF_vars(deleteReturns)
    /\ WF_vars(seedReturns)

\* A step of the console used one gateway call at a time: the operator lets
\* the call in flight return before causing the next one, and edits the
\* draft meanwhile.
OneAtATime(A) == A /\ BagCardinality(inflight') <= 1

\* The whole console around the episode list: every handler that starts or
\* ends a gateway call, the tabs, the session, and the list loaded, grown,
\* shrunk and reset.
NextFrame ==
    \/ OneAtATime(onAuthStateChanged)
    \/ OneAtATime(handleLogin)
    \/ OneAtATime(loginReturns)
    \/ OneAtATime(handleLogout)
    \/ OneAtATime(logoutReturns)
    \/ OneAtATime(clickUploadTab)
    \/ OneAtATime(clickContentTab)
    \/ OneAtATime(clickSettingsTab)
    \/ OneAtATime(fetchMoviesReturns)
    \/ OneAtATime(fetchSettingsReturns)
    \/ OneAtATime(handleEdit)
    \/ OneAtATime(cancelEdit)
    \/ OneAtATime(setNewEpTitle)
    \/ OneAtATime(setNewEpCode)
    \/ OneAtATime(handleAddEpisode)
    \/ OneAtATime(removeEpisode)
    \/ OneAtATime(handlePublish)
    \/ OneAtATime(publishReturns)
    \/ OneAtATime(handleSaveSettings)
    \/ OneAtATime(saveSettingsReturns)
    \/ OneAtATime(handleDelete)
    \/ OneAtATime(deleteReturns)
    \/ OneAtATime(handleSeedData)
    \/ OneAtATime(seedReturns)

SpecFrame == Init /\ [][NextFrame]_vars

\* ------------------------------------------------------------------ claims: episode list

SameSlot(a, b) == a.season = b.season /\ a.number = b.number

\* C1: no two episodes of the list share the same (season, number) pair.
C1_UniqueSeasonNumber ==
    \A i, j \in 1..Len(episodes) : i # j => ~SameSlot(episodes[i], episodes[j])

\* C2: when the list is the single entry (season 1, number 2) left by adding
\* two episodes to season 1 and removing the one numbered 1, adding another
\* episode to season 1 gives the list [(season 1, number 2), (season 1,
\* number 3)].
C2_AddAfterRemoveGetsThree ==
    [][(/\ Len(episodes) = 1
        /\ episodes[1].season = 1 /\ episodes[1].number = 2
        /\ SeasonNum(newEpSeason) = 1
        /\ handleAddEpisode
        /\ episodes' # episodes)
       => (/\ Len(episodes') = 2
           /\ episodes'[1].season = 1 /\ episodes'[1].number = 2
           /\ episodes'[2].season = 1 /\ episodes'[2].number = 3)]_vars

SeasonsOf(list) == {list[i].season : i \in 1..Len(list)}
NumbersOf(list, s) == {list[i].number : i \in {k \in 1..Len(list) : list[k].season = s}}

\* C3: with adds only, the episodes of each season carry exactly the numbers
\* 1..K, K the number of episodes added to that season, none repeated.
C3_DenseNumbering ==
    \A s \in SeasonsOf(episodes) :
        /\ NumbersOf(episodes, s) = 1..SeasonCount(episodes, s)
        /\ \A i, j \in 1..Len(episodes) :
              i # j /\ episodes[i].season = s /\ episodes[j].season = s
                  => episodes[i].number # episodes[j].number

C3_Witness ==
    /\ Len(episodes) = 3
    /\ \E s \in SeasonsOf(episodes) : SeasonCount(episodes, s) = 2
    /\ Cardinality(SeasonsOf(episodes)) = 2

\* old with the entries whose id is `id` taken out and every other entry
\* kept as it is, in the same order.
KeptExactly(old, new, id) ==
    LET keep == {i \in 1..Len(old) : old[i].id # id}
        nth(k) == CHOOSE i \in keep : Cardinality({j \in keep : j < i}) = k - 1
    IN  /\ Len(new) = Cardinality(keep)
        /\ \A k \in 1..Len(new) : new[k] = old[nth(k)]
        /\ (keep = 1..Len(old) => new = old)

\* C5: remove(id) yields the previous list with the entries of that id taken
\* out, the others unchanged and in their order; with no such entry the list
\* is unchanged.
C5_RemoveFrame ==
    /\ [](\A id \in EpisodeIds : KeptExactly(episodes, RemoveById(episodes, id), id))
    /\ [][removeEpisode => \E id \in EpisodeIds : KeptExactly(episodes, episodes', id)]_vars

\* Two entries of one season numbered 2 and 3: what the removal of the
\* entry numbered 1 leaves of three.
C5_Witness ==
    /\ Len(episodes) = 2
    /\ episodes[1].season = episodes[2].season
    /\ episodes[1].number = 2 /\ episodes[2].number = 3

\* C6: every episode of the list has an id distinct from every other's.
C6_UniqueIds ==
    \A i, j \in 1..Len(episodes) : i # j => episodes[i].id # episodes[j].id

\* C10: add invoked with an empty title or an empty code leaves the episode
\* list and the new-episode inputs as they were.
C10_RejectedAddChangesNothing ==
    [][(handleAddEpisode /\ (newEpTitle = "" \/ newEpCode = ""))
          => UNCHANGED <<episodes, newEpVars>>]_vars

C10_Witness ==
    /\ Rendered("upload")
    /\ newEpTitle # "" /\ newEpCode = "" /\ newEpDuration # ""
    /\ newEpSeason = <<"2">>
    /\ episodes # <<>>
    /\ ENABLED handleAddEpisode

\* ------------------------------------------------------------------ claims: sort

\* Season ascending and, within a season, number ascending.
IsSorted(list) ==
    \A i \in 1..(Len(list) - 1) :
        \/ list[i].season < list[i + 1].season
        \/ list[i].season = list[i + 1].season /\ list[i].number <= list[i + 1].number

\* C4: right after any successful add the whole list is sorted by season and,
\* within a season, by number, whether the list was built by add and remove
\* or loaded from a record.
C4_SortedAfterAdd ==
    [][(handleAddEpisode /\ episodes' # episodes) => IsSorted(episodes')]_vars

\* The two stored episodes, loaded out of order, and one added to them.
C4_Witness ==
    /\ Len(episodes) = 3
    /\ {"e1", "e2"} \subseteq {episodes[i].id : i \in 1..Len(episodes)}
    /\ IsSorted(episodes)

\* ------------------------------------------------------------------ claims: publish

\* The title or the thumbnail is empty, or both the code and the episode list.
Invalid ==
    title = "" \/ thumbnail = "" \/ (telegramCode = "" /\ episodes = <<>>)

GatewayCallIssued ==
    \E c \in BagToSet(inflight') :
        /\ c.handler = "handlePublish"
        /\ c.op \in {"create", "update"}
        /\ CopiesIn(c, inflight') = CopiesIn(c, inflight) + 1
        /\ BagCardinality(inflight') = BagCardinality(inflight) + 1

\* C7: validation fails exactly when the title is empty, the thumbnail is
\* empty, or the code and the episode list are both empty; a publish of any
\* other draft issues its gateway call, and a publish of such a draft issues
\* none.
C7_ValidationIff ==
    /\ [](ValidationFails(title, thumbnail, telegramCode, episodes) <=> Invalid)
    /\ [][handlePublish =>
            IF Invalid THEN UNCHANGED inflight ELSE GatewayCallIssued]_vars

\* A create in flight for a draft with a title, a thumbnail, no code and an
\* episode.
C7_Witness ==
    /\ loading
    /\ \E c \in BagToSet(inflight) : c.op = "create"
    /\ ~isEditing
    /\ title # "" /\ thumbnail # "" /\ telegramCode = "" /\ Len(episodes) = 1

\* C8: a publish that fails validation issues no gateway call, does not
\* raise the loading flag and leaves the draft as it was.
C8_RejectedPublishChangesNothing ==
    [][(handlePublish /\ Invalid) => UNCHANGED <<inflight, loading, draftVars>>]_vars

\* The rejection shown for a draft in edit mode that has episodes and no title.
C8_Witness ==
    /\ lastAlert = RequiredMsg
    /\ Rendered("upload")
    /\ ~loading /\ inflight = EmptyBag
    /\ isEditing /\ editId = "m1"
    /\ title = "" /\ episodes # <<>>

DraftIsFresh ==
    /\ title = "" /\ category = "Exclusive" /\ thumbnail = "" /\ telegramCode = ""
    /\ year = "2024" /\ rating = <<"9", ".", "0">> /\ quality = "4K HDR"
    /\ description = ""
    /\ episodes = <<>>
    /\ ~isEditing /\ editId = NULL

\* C9: a failed gateway call of a publish leaves the draft (form fields,
\* episode list, edit mode and edit id) as it was when the failure arrived;
\* the successful one resets it.
C9_FailedPublishKeepsDraft ==
    /\ [][(\E c \in BagToSet(inflight) : publishFailed(c)) => UNCHANGED draftVars]_vars
    /\ [][(\E c \in BagToSet(inflight) : publishSucceeded(c)) => DraftIsFresh']_vars

\* The failure shown, nothing in flight, and the draft of an edit still there.
C9_Witness ==
    /\ lastAlert = SaveErrorMsg
    /\ ~loading /\ inflight = EmptyBag
    /\ isEditing /\ editId = "m1"
    /\ title # "" /\ thumbnail # "" /\ Len(episodes) = 3

\* ------------------------------------------------------------------ claims: season

\* C11: every episode that add puts into the list has a season that is a
\* positive integer, whatever season text the operator supplied.
C11_SeasonPositive ==
    \A i \in 1..Len(episodes) : episodes[i].season >= 1

\* ------------------------------------------------------------------ claims: calls in flight

\* The Persistence Gateway's writes.
WriteOps == {"create", "update", "batchCreate", "putSettings", "delete"}

\* The writes among the calls in flight, as a bag.
Writes(calls) == [c \in {d \in DOMAIN calls : d.op \in WriteOps} |-> calls[c]]

\* C12: at most one Persistence Gateway write (create, update, batchCreate,
\* putSettings, delete) is in flight at any time.
C12_OneWriteInFlight ==
    BagCardinality(Writes(inflight)) <= 1

\* ------------------------------------------------------------------ claims: publish target

\* A step that loads a record of the list for editing, a step that resets
\* the draft (cancel edit, upload-tab click, successful publish) and a step
\* in which a publish that passed validation issues the call c.
LoadStep == handleEdit
ResetStep ==
    cancelEdit \/ clickUploadTab \/ \E c \in BagToSet(inflight) : publishSucceeded(c)
PublishIssues(c) ==
    /\ handlePublish
    /\ c.handler = "handlePublish"
    /\ inflight' = Started(inflight, c)

\* C13: edit mode is entered by a load, with the id of the record loaded,
\* left by every reset and changed by no other step; a publish that passes
\* validation issues update on that id, with no view counter and no creation
\* timestamp in its payload, exactly when in edit mode, and otherwise create
\* with the view counter "0" and a creation timestamp.
C13_PublishTarget ==
    [][/\ LoadStep =>
            /\ isEditing'
            /\ \E m \in 1..Len(movieList) :
                  /\ editId' = movieList[m].id
                  /\ title' = movieList[m].title
                  /\ episodes' = StoredEpisodes(movieList[m])
       /\ ResetStep => ~isEditing'
       /\ ~(LoadStep \/ ResetStep) => UNCHANGED editVars
       /\ \A c \in BagToSet(inflight') :
            PublishIssues(c) =>
                IF isEditing
                THEN /\ c.op = "update"
                     /\ c.id = editId
                     /\ "views" \notin c.fields
                     /\ "createdAt" \notin c.fields
                ELSE /\ c.op = "create"
                     /\ c.id = NULL
                     /\ c.views = Some("0")
                     /\ "createdAt" \in c.fields
      ]_vars

\* An update of the record loaded is in flight, and so is (in another
\* reachable state) a create issued after a reset.
C13_Witness ==
    /\ isEditing /\ editId = "m1" /\ loading
    /\ \E c \in BagToSet(inflight) :
          c.handler = "handlePublish" /\ c.op = "update" /\ c.id = "m1"

\* ------------------------------------------------------------------ claims: episode list frame

\* C14: the episode list is empty initially and after every reset (cancel
\* edit, upload-tab click, successful publish), is exactly the stored
\* episodes of the record after a load (empty if it has none), and is changed
\* by no step other than a reset, a load, an add or a remove.
C14_EpisodeListFrame ==
    /\ episodes = <<>>
    /\ [][/\ ResetStep => episodes' = <<>>
          /\ LoadStep =>
                \E m \in 1..Len(movieList) :
                    /\ editId' = movieList[m].id
                    /\ episodes' = IF movieList[m].episodes = None THEN <<>>
                                   ELSE movieList[m].episodes[1]
          /\ ~(ResetStep \/ LoadStep \/ handleAddEpisode \/ removeEpisode) =>
                UNCHANGED episodes
         ]_vars

\* A loaded list has outlived a tab switch to settings and a settings save.
C14_Witness ==
    /\ Len(episodes) = 2 /\ isEditing
    /\ activeTab = "settings"
    /\ lastAlert = SettingsSavedMsg

\* ------------------------------------------------------------------ claims: loading flag

\* The handlers that raise the loading flag.
RaisesLoading == {"handleLogin", "handlePublish", "handleSaveSettings", "handleSeedData"}

\* C15: while the loading flag is down, no operation that raised it (login,
\* publish, save settings, seed demo data) is still in flight.
C15_FlagDownMeansIdle ==
    ~loading => \A c \in BagToSet(inflight) : c.handler \notin RaisesLoading

\* The raised flag is lowered again when every gateway call returns.
FlagEventuallyLowered == loading ~> ~loading
====
